---------------------------- MODULE Spec2Model ----------------------------
(***************************************************************************)
(* util/generate_hard_docs.py: the script that regenerates the directory   *)
(* hard_docs from docs.txt.  The script is a straight line of filesystem   *)
(* calls; the model has one action per call, and the filesystem entry at   *)
(* the path hard_docs, the source file docs.txt and the process's standard *)
(* output are the state.  Any call may raise; an exception is never caught *)
(* and ends the process (pc = "crashed").                                  *)
(***************************************************************************)
EXTENDS Integers, Sequences, FiniteSets, TLC

(* ------------------------------ bounds -------------------------------- *)

\* Longest docs.txt content drawn (characters).
MaxDocLen == 2

\* Output names 0.txt .. (MaxPre-1).txt may pre-exist in hard_docs, besides
\* the unrelated name stale.txt.
MaxPre == 1

\* Number of invocations of the script in a row.
MaxRuns == 2

\* os.listdir may return up to this many names in any order; a longer
\* listing is returned in one fixed order.
MaxShuffled == 3

(* ------------------------ program constants --------------------------- *)

\* range(50): the loop stops one file short.
NumFilesShort == 51 - 1

\* range(51)
NumFiles == 51

\* print("Files created successfully.")
SuccessMessage == "Files created successfully."

NL == "\n"

(* --------------------------- pure helpers ----------------------------- *)

Digit(d) == <<"0", "1", "2", "3", "4", "5", "6", "7", "8", "9">>[d + 1]

\* f"{i}" for a non-negative int: decimal digits, most significant first,
\* no leading zero, "0" for zero.
RECURSIVE Str(_)
Str(n) == IF n < 10 THEN <<Digit(n)>> ELSE Str(n \div 10) \o <<Digit(n % 10)>>

\* f"{i}.txt" (the entry name os.path.join(dir, ...) addresses inside dir)
FileName(n) == Str(n) \o <<".", "t", "x", "t">>

\* f"{i}\n{docs_content}\n": a newline is appended after the body.
ContentTrailingNewline(n, body) == Str(n) \o <<NL>> \o body \o <<NL>>

\* f"{i}\n{docs_content}"
Content(n, body) == Str(n) \o <<NL>> \o body

StaleName == <<"s", "t", "a", "l", "e", ".", "t", "x", "t">>

(* ------------------------------ state --------------------------------- *)

VARIABLES
    hard_docs,     \* the filesystem entry at the path 'hard_docs'
    docs_txt,      \* the filesystem entry at the path 'docs.txt'
    cwdWritable,   \* may entries be created in / removed from the working directory
    quota,         \* number of files the volume lets hard_docs hold
    pc,            \* the statement the process is at
    listing,       \* the list os.listdir returned, less the names already iterated
    docs_content,  \* the script's variable docs_content
    i,             \* the script's loop variable i
    stdout,        \* lines printed by this invocation
    failedAt,      \* the statement that raised, "" while none has
    log,           \* statements completed by this invocation, in order
    run,           \* number of this invocation
    before,        \* hard_docs as this invocation found it
    prev           \* how the previous invocation ended, and what it left

vars == <<hard_docs, docs_txt, cwdWritable, quota, pc, listing, docs_content,
          i, stdout, failedAt, log, run, before, prev>>

env == <<docs_txt, cwdWritable, quota>>

(* ------------------------- filesystem entries ------------------------- *)

NoEntries == <<>>

Absent == [kind |-> "absent", r |-> FALSE, w |-> FALSE, entries |-> NoEntries]

\* What os.mkdir creates: an empty directory its owner may list and modify.
FreshDir == [kind |-> "dir", r |-> TRUE, w |-> TRUE, entries |-> NoEntries]

File(c) == [kind |-> "file", content |-> c]

SubDir == [kind |-> "dir", content |-> <<>>]

Names(d) == DOMAIN d.entries

\* The directory's entries without the entry `name`.
Without(es, name) == [n \in (DOMAIN es) \ {name} |-> es[n]]

\* The directory's entries with `name` created or replaced.
With(es, name, e) == [n \in (DOMAIN es) \cup {name} |-> IF n = name THEN e ELSE es[n]]

\* os.path.exists(docs_path): the test looks at the wrong path.
ExistsOfDocsPath(d) == docs_txt.state /= "missing"

\* os.path.exists(dir): follows symbolic links; False for a broken link.
Exists(d) == d.kind \in {"dir", "file", "dirlink"}

\* os.listdir(dir) succeeds on a readable directory (or a link to one).
CanList(d) == d.kind \in {"dir", "dirlink"} /\ d.r

\* shutil.rmtree-like removal: subdirectories are removed too.
CanRemoveTree(d, name) == d.w /\ name \in Names(d)

\* os.remove(file_path) succeeds on a non-directory entry of a directory
\* the process may modify.
CanRemove(d, name) == d.w /\ name \in Names(d) /\ d.entries[name].kind = "file"

\* os.rmdir(dir) succeeds on an empty real directory (not a link to one)
\* when the working directory may be modified.
CanRmdir(d) == d.kind = "dir" /\ Names(d) = {} /\ cwdWritable

\* os.mkdir(dir) succeeds when nothing, not even a broken link, is at the
\* path and the working directory may be modified.
CanMkdir(d) == d.kind = "absent" /\ cwdWritable

\* open(docs_path, 'a+'): a missing docs.txt is created empty and read.
CanReadOrCreate(f) == f.state /= "unreadable"

\* open(docs_path, 'r') and f.read() succeed on an existing readable file.
CanRead(f) == f.state = "ok"

\* open(o, 'w') and f.write(content) succeed in a directory the process may
\* modify, when the name is not a directory and the volume has room for it.
CanWrite(d, name) ==
    /\ d.kind \in {"dir", "dirlink"} /\ d.w
    /\ IF name \in Names(d) THEN d.entries[name].kind = "file"
                            ELSE Cardinality(Names(d)) < quota


(* --------------------------- initial states --------------------------- *)

Alphabet == {"7", NL}

\* The contents docs.txt may hold: every text over Alphabet up to MaxDocLen.
DocContents == UNION {[1..n -> Alphabet] : n \in 0..MaxDocLen}

InitialDocs ==
    {[state |-> "missing", content |-> <<>>],
     [state |-> "unreadable", content |-> <<>>]}
    \cup {[state |-> "ok", content |-> c] : c \in DocContents}

OldContent == <<"o", "l", "d">>

PreNames == {StaleName} \cup {FileName(k) : k \in 0..(MaxPre - 1)}

\* hard_docs may hold any of PreNames, each a flat file or a subdirectory.
InitialEntries == UNION {[S -> {File(OldContent), SubDir}] : S \in SUBSET PreNames}

\* The path hard_docs is absent, a regular file, a broken symbolic link, a
\* directory, or a symbolic link to a directory.
InitialHardDocs ==
    {Absent,
     [kind |-> "file", r |-> TRUE, w |-> TRUE, entries |-> NoEntries],
     [kind |-> "dangling", r |-> FALSE, w |-> FALSE, entries |-> NoEntries]}
    \cup {[kind |-> "dir", r |-> r, w |-> w, entries |-> es] :
            r \in BOOLEAN, w \in BOOLEAN, es \in InitialEntries}
    \cup {[kind |-> "dirlink", r |-> TRUE, w |-> TRUE, entries |-> es] :
            es \in InitialEntries}

\* The volume has room for no file, for some of the files, for all but the
\* last, or for all of them.
QuotaChoices == {0, 11, NumFiles - 1, NumFiles}

Init ==
    /\ hard_docs \in InitialHardDocs
    /\ docs_txt \in InitialDocs
    /\ cwdWritable \in BOOLEAN
    /\ quota \in QuotaChoices
    /\ pc = "exists"
    /\ listing = <<>>
    /\ docs_content = <<>>
    /\ i = 0
    /\ stdout = <<>>
    /\ failedAt = ""
    /\ log = <<>>
    /\ run = 1
    /\ before = hard_docs
    /\ prev = [ended |-> "none", left |-> Absent]

(* ------------------------------ actions ------------------------------- *)

Step(op) == [op |-> op, idx |-> 0]

\* An uncaught exception at statement `op`: the interpreter prints a
\* traceback to stderr and exits; nothing is undone.
Raise(op) ==
    /\ pc' = "crashed"
    /\ failedAt' = op
    /\ UNCHANGED <<listing, docs_content, i, stdout, log>>

\* if not os.path.exists(dir): os.mkdir(dir): an existing directory is kept
\* as it is, with what it holds.
CheckExistsNoReset ==
    /\ pc = "exists"
    /\ pc' = IF Exists(hard_docs) THEN "read" ELSE "mkdir"
    /\ log' = Append(log, Step("exists"))
    /\ UNCHANGED <<hard_docs, env, listing, docs_content, i, stdout, failedAt,
                   run, before, prev>>

\* line 6: if os.path.exists(dir):
CheckExists ==
    /\ pc = "exists"
    /\ pc' = IF Exists(hard_docs) THEN "listdir" ELSE "mkdir"
    /\ log' = Append(log, Step("exists"))
    /\ UNCHANGED <<hard_docs, env, listing, docs_content, i, stdout, failedAt,
                   run, before, prev>>

\* The names of S in one fixed order.  (The rest of the set is bound to T
\* before the recursive use, so that it is computed once.)
RECURSIVE SomeOrder(_)
SomeOrder(S) ==
    IF S = {} THEN <<>>
    ELSE LET x == CHOOSE y \in S : TRUE
         IN  CHOOSE l \in {<<x>> \o SomeOrder(T) : T \in {S \ {x}}} : TRUE

\* The lists os.listdir may return for a directory holding the names S:
\* the order is arbitrary.
Listings(S) ==
    IF Cardinality(S) <= MaxShuffled
    THEN {l \in [1..Cardinality(S) -> S] : \A a, b \in DOMAIN l : l[a] = l[b] => a = b}
    ELSE {SomeOrder(S)}

\* line 7: for filename in os.listdir(dir):  (the call to os.listdir)
ListDir ==
    /\ pc = "listdir"
    /\ IF CanList(hard_docs)
       THEN /\ listing' \in Listings(Names(hard_docs))
            /\ pc' = IF Names(hard_docs) = {} THEN "rmdir" ELSE "remove"
            /\ log' = Append(log, Step("listdir"))
            /\ UNCHANGED <<docs_content, i, stdout, failedAt>>
       ELSE Raise("listdir")
    /\ UNCHANGED <<hard_docs, env, run, before, prev>>

\* lines 7-9: one iteration of the loop: os.remove(os.path.join(dir, filename))
RemoveFile ==
    /\ pc = "remove"
    /\ LET filename == Head(listing) IN
         IF CanRemove(hard_docs, filename)
         THEN /\ hard_docs' = [hard_docs EXCEPT
                                 !.entries = Without(hard_docs.entries, filename)]
              /\ listing' = Tail(listing)
              /\ pc' = IF listing' = <<>> THEN "rmdir" ELSE "remove"
              /\ log' = Append(log, Step("remove"))
              /\ UNCHANGED <<docs_content, i, stdout, failedAt>>
         ELSE /\ Raise("remove")
              /\ UNCHANGED hard_docs
    /\ UNCHANGED <<env, run, before, prev>>

\* line 10 left out: the emptied directory is not removed.
RmdirOmitted ==
    /\ pc = "rmdir"
    /\ pc' = "mkdir"
    /\ log' = Append(log, Step("rmdir"))
    /\ UNCHANGED <<hard_docs, env, listing, docs_content, i, stdout, failedAt,
                   run, before, prev>>

\* line 10: os.rmdir(dir)
Rmdir ==
    /\ pc = "rmdir"
    /\ IF CanRmdir(hard_docs)
       THEN /\ hard_docs' = Absent
            /\ pc' = "mkdir"
            /\ log' = Append(log, Step("rmdir"))
            /\ UNCHANGED <<listing, docs_content, i, stdout, failedAt>>
       ELSE /\ Raise("rmdir")
            /\ UNCHANGED hard_docs
    /\ UNCHANGED <<env, run, before, prev>>

\* line 11: os.mkdir(dir)
Mkdir ==
    /\ pc = "mkdir"
    /\ IF CanMkdir(hard_docs)
       THEN /\ hard_docs' = FreshDir
            /\ pc' = "read"
            /\ log' = Append(log, Step("mkdir"))
            /\ UNCHANGED <<listing, docs_content, i, stdout, failedAt>>
       ELSE /\ Raise("mkdir")
            /\ UNCHANGED hard_docs
    /\ UNCHANGED <<env, run, before, prev>>

\* lines 13-14: with open(docs_path, 'r') as f: docs_content = f.read()
\* and line 16: the loop variable takes range(51)'s first value.
ReadDocs ==
    /\ pc = "read"
    /\ IF CanRead(docs_txt)
       THEN /\ docs_content' = docs_txt.content
            /\ i' = 0
            /\ pc' = IF NumFiles = 0 THEN "print" ELSE "write"
            /\ log' = Append(log, Step("read"))
            /\ UNCHANGED <<listing, stdout, failedAt>>
       ELSE Raise("read")
    /\ UNCHANGED <<hard_docs, env, run, before, prev>>

\* A failed write cleans up: the files written so far are removed.
AfterFailedWriteRollsBack(d, name, content) == {[d EXCEPT !.entries = NoEntries]}

\* What a failed open/write of `name` leaves: nothing (open raised), or the
\* file holding a proper prefix of the content (write or flush raised).
AfterFailedWrite(d, name, content) ==
    {d} \cup
    IF d.kind \in {"dir", "dirlink"} /\ d.w /\ name \notin Names(d)
    THEN {[d EXCEPT !.entries = With(d.entries, name, File(SubSeq(content, 1, n)))] :
            n \in 0..(Len(content) - 1)}
    ELSE {}

\* try: ... except OSError: pass around the write: when open raises, the
\* loop goes on.
WriteErrorSwallowed(o, content) ==
    /\ hard_docs' = hard_docs
    /\ i' = i + 1
    /\ pc' = IF i + 1 < NumFiles THEN "write" ELSE "print"
    /\ log' = Append(log, [op |-> "write", idx |-> i])
    /\ UNCHANGED <<listing, docs_content, stdout, failedAt>>

\* with open(o, 'w') as f: f.write(content) raised: the exception is not
\* caught, and what the failed call left in the directory stays.
WriteRaises(o, content) ==
    /\ hard_docs' \in AfterFailedWrite(hard_docs, o, content)
    /\ Raise("write")

\* line 16: for i in range(51): where the loop goes after iteration n.
AfterWrite(n) == IF n + 1 < NumFiles THEN "write" ELSE "print"

\* lines 16-21: one iteration of the loop:
\*   o = os.path.join(dir, f"{i}.txt"); content = f"{i}\n{docs_content}"
\*   with open(o, 'w') as f: f.write(content)
WriteFile ==
    /\ pc = "write"
    /\ LET o == FileName(i)
           content == Content(i, docs_content)
       IN IF CanWrite(hard_docs, o)
          THEN /\ hard_docs' = [hard_docs EXCEPT
                                  !.entries = With(hard_docs.entries, o, File(content))]
               /\ i' = i + 1
               /\ pc' = AfterWrite(i)
               /\ log' = Append(log, [op |-> "write", idx |-> i])
               /\ UNCHANGED <<listing, docs_content, stdout, failedAt>>
          ELSE WriteRaises(o, content)
    /\ UNCHANGED <<env, run, before, prev>>

\* line 23: print("Files created successfully."), then the script ends.
PrintMessage ==
    /\ pc = "print"
    /\ stdout' = Append(stdout, SuccessMessage)
    /\ pc' = "done"
    /\ log' = Append(log, Step("print"))
    /\ UNCHANGED <<hard_docs, env, listing, docs_content, i, failedAt, run,
                   before, prev>>

Terminated == pc \in {"done", "crashed"}

\* The script is invoked again, in the filesystem the last invocation left,
\* with docs.txt and the environment unchanged.
Rerun ==
    /\ Terminated
    /\ run < MaxRuns
    /\ run' = run + 1
    /\ prev' = [ended |-> pc, left |-> hard_docs]
    /\ before' = hard_docs
    /\ pc' = "exists"
    /\ listing' = <<>>
    /\ docs_content' = <<>>
    /\ i' = 0
    /\ stdout' = <<>>
    /\ failedAt' = ""
    /\ log' = <<>>
    /\ UNCHANGED <<hard_docs, env>>

Next ==
    \/ CheckExists
    \/ ListDir
    \/ RemoveFile
    \/ Rmdir
    \/ Mkdir
    \/ ReadDocs
    \/ WriteFile
    \/ PrintMessage
    \/ Rerun

Spec == Init /\ [][Next]_vars

\* The interpreter runs the script's statements one after another: a
\* statement that can run does run.
FairSpec == Spec /\ WF_vars(Next)

(* ---------------------- reading names and contents -------------------- *)
(* The properties below read file names and contents back character by     *)
(* character, so that they do not rest on Str, FileName or Content.        *)

DecimalChars == {"0", "1", "2", "3", "4", "5", "6", "7", "8", "9"}

DecimalValue(c) ==
    CASE c = "0" -> 0 [] c = "1" -> 1 [] c = "2" -> 2 [] c = "3" -> 3
      [] c = "4" -> 4 [] c = "5" -> 5 [] c = "6" -> 6 [] c = "7" -> 7
      [] c = "8" -> 8 [] c = "9" -> 9

\* s is a decimal numeral without sign or leading zero.
IsDecimal(s) ==
    /\ Len(s) >= 1
    /\ \A k \in 1..Len(s) : s[k] \in DecimalChars
    /\ Len(s) > 1 => s[1] /= "0"

RECURSIVE ParseInt(_)
ParseInt(s) ==
    IF s = <<>> THEN 0
    ELSE 10 * ParseInt(SubSeq(s, 1, Len(s) - 1)) + DecimalValue(s[Len(s)])

Stem(name) == SubSeq(name, 1, Len(name) - 4)

\* name is k.txt for the index k.
IsNameOf(name, k) ==
    /\ Len(name) > 4
    /\ SubSeq(name, Len(name) - 3, Len(name)) = <<".", "t", "x", "t">>
    /\ IsDecimal(Stem(name))
    /\ ParseInt(Stem(name)) = k

\* The entry e is a file holding the decimal numeral of k, one newline and
\* then exactly the text C.
IsCopyOf(e, k, C) ==
    /\ e.kind = "file"
    /\ \E m \in 1..Len(e.content) :
         /\ e.content[m] = NL
         /\ IsDecimal(SubSeq(e.content, 1, m - 1))
         /\ ParseInt(SubSeq(e.content, 1, m - 1)) = k
         /\ SubSeq(e.content, m + 1, Len(e.content)) = C

\* hard_docs is a directory that holds k.txt.
HasFile(k) ==
    /\ hard_docs.kind = "dir"
    /\ \E name \in Names(hard_docs) : IsNameOf(name, k)

\* hard_docs holds k.txt, a copy of C under the index k.
HasCopy(k, C) ==
    /\ hard_docs.kind = "dir"
    /\ \E name \in Names(hard_docs) :
         IsNameOf(name, k) /\ IsCopyOf(hard_docs.entries[name], k, C)

\* The invocation found hard_docs absent, or a directory of flat files.
FoundFlat ==
    \/ before.kind = "absent"
    \/ /\ before.kind = "dir"
       /\ \A name \in Names(before) : before.entries[name].kind = "file"

(* ------------------------------- claims ------------------------------- *)

\* C1: when an invocation that found hard_docs absent, empty or holding only
\* flat files ends successfully, hard_docs is a directory whose entries are
\* exactly 0.txt .. 50.txt, 51 entries: every other entry it held is gone.
C1_ExactlyTheNumberedFiles ==
    (pc = "done" /\ FoundFlat) =>
        /\ hard_docs.kind = "dir"
        /\ Cardinality(Names(hard_docs)) = 51
        /\ \A name \in Names(hard_docs) : \E k \in 0..50 : IsNameOf(name, k)
        /\ \A k \in 0..50 : HasFile(k)

\* A successful invocation that found stale.txt in hard_docs.
C1_Witness ==
    /\ pc = "done"
    /\ before.kind = "dir"
    /\ StaleName \in Names(before)
    /\ before.entries[StaleName].kind = "file"

\* C2: after a successful invocation, for every i in 0..50 the file i.txt
\* holds the decimal numeral of i, one newline, and then docs.txt's content
\* exactly, also when i.txt existed before with another content.
C2_IndexNewlineBody ==
    pc = "done" =>
        \A k \in 0..50 :
            /\ HasCopy(k, docs_txt.content)
            /\ \A name \in Names(hard_docs) :
                  IsNameOf(name, k) => IsCopyOf(hard_docs.entries[name], k, docs_txt.content)

\* A successful invocation that found 0.txt holding another content, with a
\* docs.txt that itself ends in a newline.
C2_Witness ==
    /\ pc = "done"
    /\ before.kind = "dir"
    /\ \E name \in Names(before) :
         IsNameOf(name, 0) /\ before.entries[name] = File(OldContent)
    /\ HasCopy(0, docs_txt.content)
    /\ Len(docs_txt.content) = MaxDocLen
    /\ docs_txt.content[MaxDocLen] = NL

\* C3: an invocation that starts from what a successful invocation left,
\* docs.txt unchanged, cannot fail, and when it ends hard_docs holds the same
\* names with the same contents as the earlier invocation left.
C3_Idempotent ==
    (run > 1 /\ prev.ended = "done") =>
        /\ pc /= "crashed"
        /\ pc = "done" =>
              /\ Names(hard_docs) = Names(prev.left)
              /\ \A name \in Names(hard_docs) :
                    hard_docs.entries[name] = prev.left.entries[name]
              /\ hard_docs.kind = prev.left.kind

\* The second of two successful invocations has ended.
C3_Witness ==
    /\ run > 1
    /\ prev.ended = "done"
    /\ pc = "done"
    /\ Cardinality(Names(hard_docs)) = 51

\* The statements this invocation completed include a write.
WroteSomething == \E k \in 1..Len(log) : log[k].op = "write"

\* No directory is at the path hard_docs.
NoDirectory == hard_docs.kind \notin {"dir", "dirlink"}

\* Every entry of hard_docs is an output file this invocation wrote or was
\* writing when it failed.
PartiallyWritten ==
    /\ hard_docs.kind = "dir"
    /\ WroteSomething \/ failedAt = "write"
    /\ \A name \in Names(hard_docs) : \E k \in 0..i : IsNameOf(name, k)

\* hard_docs is the entry the invocation found, holding some of the entries
\* it held then, unchanged.
HoldsLeftovers ==
    /\ hard_docs.kind = before.kind
    /\ Names(hard_docs) \subseteq Names(before)
    /\ \A name \in Names(hard_docs) : hard_docs.entries[name] = before.entries[name]

\* C4 as stated: with docs.txt missing the invocation ends with an error,
\* prints nothing, and leaves hard_docs absent, empty or partially written.
C4_AsStated ==
    docs_txt.state = "missing" =>
        /\ pc /= "done"
        /\ stdout = <<>>
        /\ pc = "crashed" =>
              \/ NoDirectory
              \/ Names(hard_docs) = {}
              \/ PartiallyWritten

\* C4, amended: with docs.txt missing the invocation ends with an error,
\* prints nothing, and leaves hard_docs absent, empty, partially written,
\* or, when the listing or a removal of the reset raised, still holding
\* entries it held before the invocation.
C4_MissingSource ==
    docs_txt.state = "missing" =>
        /\ pc /= "done"
        /\ stdout = <<>>
        /\ pc = "crashed" =>
              \/ NoDirectory
              \/ Names(hard_docs) = {}
              \/ PartiallyWritten
              \/ failedAt \in {"listdir", "remove"} /\ HoldsLeftovers

\* docs.txt is missing and the invocation ended at the source read, after
\* it emptied a hard_docs that held entries.
C4_Witness ==
    /\ docs_txt.state = "missing"
    /\ pc = "crashed"
    /\ failedAt = "read"
    /\ Names(before) /= {}
    /\ Names(hard_docs) = {}

\* Every one of 0.txt .. 50.txt is in hard_docs and holds its copy.
AllWritten == \A k \in 0..50 : HasCopy(k, docs_content)

\* C5: the success message is printed at most once and only when all 51
\* files are written; an invocation in which a filesystem call raised has
\* printed nothing and has ended in the failure state.
C5_MessageOnlyAfterAllWrites ==
    /\ Len(stdout) <= 1
    /\ stdout /= <<>> => stdout = <<SuccessMessage>> /\ AllWritten /\ failedAt = ""
    /\ failedAt /= "" => stdout = <<>> /\ pc = "crashed"
    /\ pc = "crashed" => failedAt /= ""

\* The write of the last file raised: fifty files are written, and nothing
\* is printed.
C5_Witness ==
    /\ failedAt = "write"
    /\ i = 50
    /\ stdout = <<>>
    /\ \A k \in 0..49 : HasCopy(k, docs_content)

\* The invocation found a directory holding an entry os.remove cannot
\* remove: a subdirectory, or any entry of a directory it may not modify.
FoundUnremovable ==
    /\ before.kind \in {"dir", "dirlink"}
    /\ \E name \in Names(before) :
         before.entries[name].kind = "dir" \/ ~before.w

\* The statements this invocation completed include `op`.
Completed(op) == \E k \in 1..Len(log) : log[k].op = op

\* C6: an invocation that found an entry in hard_docs that cannot be removed
\* as a file never gets past the reset's loop: it ends with an error raised
\* by the listing or a removal, hard_docs is not removed or recreated,
\* docs.txt is not read, no output file is written, nothing is printed.
C6_ResetFailsLoudly ==
    FoundUnremovable =>
        /\ pc \in {"exists", "listdir", "remove", "crashed"}
        /\ pc = "crashed" => failedAt \in {"listdir", "remove"}
        /\ ~Completed("rmdir") /\ ~Completed("mkdir") /\ ~Completed("read")
        /\ ~WroteSomething
        /\ HoldsLeftovers
        /\ docs_content = <<>>
        /\ stdout = <<>>

\* os.remove raised on a subdirectory after the loop had removed a file.
C6_Witness ==
    /\ pc = "crashed"
    /\ failedAt = "remove"
    /\ \E name \in Names(hard_docs) : hard_docs.entries[name].kind = "dir"
    /\ hard_docs.w
    /\ Names(hard_docs) /= Names(before)

\* C7 as stated: whenever os.mkdir is reached, nothing is at the path
\* hard_docs, whatever was there when the invocation started.
C7_NothingAtPathOnMkdir ==
    pc = "mkdir" => hard_docs.kind = "absent"

\* The statements of a successful invocation, in the script's order: the
\* existence test; the listing, one removal for each entry found and the
\* rmdir when a directory was found; mkdir; the source read; the writes of
\* 0.txt .. 50.txt by increasing index; the print.
ScriptOrder ==
    <<Step("exists")>>
    \o (IF before.kind \in {"absent", "dangling"} THEN <<>>
        ELSE <<Step("listdir")>>
             \o [k \in 1..Cardinality(Names(before)) |-> Step("remove")]
             \o <<Step("rmdir")>>)
    \o <<Step("mkdir"), Step("read")>>
    \o [k \in 1..51 |-> [op |-> "write", idx |-> k - 1]]
    \o <<Step("print")>>

IsPrefix(s, t) == Len(s) <= Len(t) /\ s = SubSeq(t, 1, Len(s))

\* The two terminal states, and the order of the statements up to now.
InOrder ==
    /\ IsPrefix(log, ScriptOrder)
    /\ pc = "done" => /\ log = ScriptOrder
                      /\ stdout = <<SuccessMessage>>
                      /\ AllWritten
                      /\ failedAt = ""
    /\ pc = "crashed" => /\ failedAt /= ""
                         /\ stdout = <<>>
                         /\ log /= ScriptOrder

\* C8: every invocation ends, either in success (all 51 files written and
\* the message printed) or in failure (a filesystem call raised); up to
\* there its statements ran in the script's order, each once, and in a
\* successful invocation all of them did.
C8_TerminatesInOrder ==
    /\ []InOrder
    /\ []((~Terminated) => <>Terminated)

\* An invocation that went through the whole reset has ended in success.
C8_Witness ==
    /\ pc = "done"
    /\ log = ScriptOrder
    /\ Len(log) = 58

\* C9: when the write of k.txt raised, hard_docs is still there at the end,
\* each j.txt with j < k holds its copy, no j.txt with j > k exists, and
\* nothing hard_docs held before the invocation is back: its only entries
\* are the files written, and possibly k.txt itself.
C9_NoRollback ==
    (pc = "crashed" /\ failedAt = "write") =>
        /\ hard_docs.kind = "dir"
        /\ i \in 0..50
        /\ \A j \in 0..50 :
              /\ j < i => HasCopy(j, docs_txt.content)
              /\ j > i => ~HasFile(j)
        /\ \A name \in Names(hard_docs) : \E j \in 0..i : IsNameOf(name, j)

\* The write of 11.txt raised in an invocation that had found stale.txt.
C9_Witness ==
    /\ pc = "crashed"
    /\ failedAt = "write"
    /\ i = 11
    /\ StaleName \in Names(before)
    /\ HasCopy(10, docs_txt.content)

\* The invocation found hard_docs absent, or a directory it may list and
\* modify that holds flat files only.
FoundRemovable ==
    \/ before.kind = "absent"
    \/ /\ before.kind = "dir" /\ before.r /\ before.w
       /\ \A name \in Names(before) : before.entries[name].kind = "file"

\* C10 as stated: with docs.txt missing or unreadable and hard_docs absent
\* or holding removable flat files only, hard_docs exists and is empty at
\* the end.
C10_AsStated ==
    (docs_txt.state /= "ok" /\ FoundRemovable /\ Terminated) =>
        /\ hard_docs.kind = "dir"
        /\ Names(hard_docs) = {}

\* C10, amended: with docs.txt missing or unreadable and hard_docs absent
\* or holding removable flat files only, the invocation fails at rmdir,
\* mkdir or the source read; every file hard_docs held is gone and none is
\* written; hard_docs exists and is empty, unless os.mkdir raised, and
\* then it is absent.
C10_ResetBeforeRead ==
    (docs_txt.state /= "ok" /\ FoundRemovable /\ Terminated) =>
        /\ pc = "crashed"
        /\ failedAt \in {"rmdir", "mkdir", "read"}
        /\ ~WroteSomething
        /\ IF failedAt = "mkdir"
           THEN hard_docs.kind = "absent"
           ELSE hard_docs.kind = "dir" /\ Names(hard_docs) = {}

\* docs.txt is unreadable and the source read raised, after the reset had
\* removed the flat files hard_docs held.
C10_Witness ==
    /\ docs_txt.state = "unreadable"
    /\ pc = "crashed"
    /\ failedAt = "read"
    /\ before.kind = "dir"
    /\ Names(before) /= {}
    /\ hard_docs = FreshDir

=============================================================================
